---- MODULE Spec2Model ----
(***************************************************************************)
(* Model of position_handler.py: one reconciliation pass of the Bitget      *)
(* position handler (run_sl_correction_check under main_loop) against an    *)
(* exchange that holds positions and conditional (plan) orders.             *)
(*                                                                          *)
(* Decimal texts of the wire format ("1.0002") and the floats parsed from   *)
(* them are fixed-point integers in units of 0.00001: 1.0 is 100000, the    *)
(* tolerance 0.0001 is 10 and round(x, 4) rounds to a multiple of 10.       *)
(* Binary floating-point noise of the comparison in line 542 is therefore   *)
(* not part of the model.                                                   *)
(***************************************************************************)
EXTENDS Integers, Sequences, FiniteSets, TLC

\* ------------------------------------------------------------ wire values
\* A field of a raw record: a decimal text, a text float() rejects, or a key
\* that is absent (or empty, which .get() treats alike).
Num(n) == <<"num", n>>
BadV == <<"bad", 0>>
NoneV == <<"none", 0>>

IsNum(v) == v[1] = "num"
\* Python truthiness of pos.get(key): a non-empty text is true, "0" included.
Truthy(v) == v[1] # "none"

\* Tolerance of the size comparison (0.0001) in model units.
Tolerance == 10
\* round(x, 4) keeps four decimals: multiples of RoundUnit model units.
RoundUnit == 10

\* round(x, 4), ties to even as Python rounds an exactly representable half.
Round4(x) ==
  LET r == x % RoundUnit
      lo == x - r
  IN IF 2 * r < RoundUnit THEN lo
     ELSE IF 2 * r > RoundUnit THEN lo + RoundUnit
     ELSE IF (lo \div RoundUnit) % 2 = 0 THEN lo ELSE lo + RoundUnit

\* ------------------------------------------------------------ bounds, inputs
\* Most conditional orders the exchange holds when the pass starts.
MaxOrders == 3
\* Runs of main_loop in a row under SpecRepeat (the external trigger starts
\* the program again once a pass has ended).
MaxPasses == 2

Symbols == {"BTC", "ETH"}

RawPosition(sym, hs, total, avg, usd, sl, tp) ==
  [symbol |-> sym, holdSide |-> hs, total |-> total, averageOpenPrice |-> avg,
   averageOpenPriceUsd |-> usd, stopLossPrice |-> sl, takeProfitPrice |-> tp]

\* Position records of the focus symbol: the regular long position and one
\* irregular field at a time, the short position with fewer variants.
\* A symbol or holdSide of "" stands for the key being absent; "net" is a
\* holdSide that is neither long nor short (on a record without entry price,
\* where the side test alone decides the candidates).
BtcLong == RawPosition("BTC", "long", Num(100000), Num(10000000), NoneV, NoneV, NoneV)
BtcShort == RawPosition("BTC", "short", Num(100000), Num(10000000), NoneV, NoneV, NoneV)
EthLong == RawPosition("ETH", "long", Num(100000), Num(10000000), NoneV, NoneV, NoneV)

BtcPositionRecords ==
  { BtcLong,
    [BtcLong EXCEPT !.total = Num(100004)],
    [BtcLong EXCEPT !.total = Num(0)],
    [BtcLong EXCEPT !.total = BadV],
    [BtcLong EXCEPT !.averageOpenPrice = NoneV],
    [BtcLong EXCEPT !.averageOpenPrice = BadV],
    [BtcLong EXCEPT !.averageOpenPrice = Num(0)],
    [BtcLong EXCEPT !.averageOpenPrice = NoneV, !.averageOpenPriceUsd = Num(10000000)],
    [BtcLong EXCEPT !.stopLossPrice = Num(9500000)],
    [BtcLong EXCEPT !.stopLossPrice = BadV],
    [BtcLong EXCEPT !.takeProfitPrice = Num(12000000)],
    [BtcLong EXCEPT !.takeProfitPrice = BadV],
    [BtcLong EXCEPT !.holdSide = ""],
    [BtcLong EXCEPT !.holdSide = "net", !.averageOpenPrice = NoneV],
    BtcShort,
    [BtcShort EXCEPT !.averageOpenPrice = NoneV],
    [BtcShort EXCEPT !.stopLossPrice = Num(10500000)] }

\* The position list of the exchange: at most one record of ETH, and of BTC one
\* record or both hold sides, in either order.
PositionSnapshots ==
  LET btc == {<<>>} \cup {<<r>> : r \in BtcPositionRecords}
               \cup {<<BtcLong, BtcShort>>, <<BtcShort, BtcLong>>}
      eth == {<<>>, <<EthLong>>}
  IN {b \o e : b \in btc, e \in eth} \cup {e \o b : b \in btc, e \in eth}

RawOrder(id, sym, side, size, trig, type) ==
  [orderId |-> id, symbol |-> sym, side |-> side, size |-> size,
   triggerPrice |-> trig, orderType |-> type]

\* Conditional orders the exchange may hold. An orderId of 0 or a size of NoneV
\* stands for the key being absent.
OrderTemplates ==
  { RawOrder(1, "BTC", "close_long", Num(100020), Num(9000004), "limit"),
    RawOrder(2, "BTC", "close_long", Num(50000), Num(9200000), "limit"),
    RawOrder(3, "BTC", "close_long", Num(100005), Num(9200000), "limit"),
    RawOrder(4, "BTC", "close_long", Num(50000), Num(11000000), "limit"),
    RawOrder(5, "BTC", "close_long", Num(100020), Num(9000000), "market"),
    RawOrder(6, "BTC", "close_short", Num(100020), Num(11000000), "limit"),
    RawOrder(7, "BTC", "close_short", Num(50000), Num(10800000), "limit"),
    RawOrder(8, "BTC", "open_long", Num(50000), Num(9000000), "limit"),
    RawOrder(9, "BTC", "close_long", BadV, Num(9000000), "limit"),
    RawOrder(10, "BTC", "close_long", NoneV, Num(9000000), "limit"),
    RawOrder(11, "ETH", "close_long", Num(100020), Num(9000000), "limit") }

OrderSnapshots == {s \in SUBSET OrderTemplates : Cardinality(s) <= MaxOrders}

\* First id the exchange assigns to an order placed during the run.
FirstNewId == Cardinality(OrderTemplates) + 1

\* All orderings of a finite set, as sequences.
Perms(S) ==
  {f \in [1..Cardinality(S) -> S] : \A i, j \in 1..Cardinality(S) : f[i] = f[j] => i = j}

\* The answers of the plan-order query for a set of orders: the exchange lists
\* them by id, oldest first or newest first.
Listings(S) ==
  {f \in Perms(S) :
     \/ \A i, j \in 1..Cardinality(S) : i < j => f[i].orderId < f[j].orderId
     \/ \A i, j \in 1..Cardinality(S) : i < j => f[i].orderId > f[j].orderId}

RECURSIVE SumSizes(_)
SumSizes(s) == IF s = <<>> THEN 0 ELSE Head(s).size + SumSizes(Tail(s))

\* ------------------------------------------------------------ transport
\* What make_api_request returns to a caller, by the venue's answer: the data
\* of a success, {} for the tolerated codes 40034/43020 (the order does not
\* exist), None for any other venue code, HTTP status or request error.
make_api_request(answer) ==
  CASE answer = "00000" -> "ok"
    [] answer \in {"40034", "43020"} -> "notfound"
    [] OTHER -> "error"

\* Venue answers to a cancel, to a place and to a query.
CancelAnswers == {"00000", "43020", "neterr"}
PlaceAnswers == {"00000", "neterr"}
QueryAnswers == {"00000", "neterr"}

\* ------------------------------------------------------------ normalizer
\* hold_size of a raw position whose total parses; an absent total reads "0".
HoldSize(pos) == IF IsNum(pos.total) THEN pos.total[2] ELSE 0

\* float(total) raises ValueError inside the try: the record is skipped.
TotalUnparseable(pos) == pos.total = BadV

\* The statements of the hold_size > 0 branch that are outside any try:
\* pos["symbol"], float(stopLossPrice), float(takeProfitPrice), pos["holdSide"].
RecordFaults(pos) ==
  /\ ~TotalUnparseable(pos)
  /\ HoldSize(pos) > 0
  /\ \/ pos.symbol = ""
     \/ Truthy(pos.stopLossPrice) /\ ~IsNum(pos.stopLossPrice)
     \/ Truthy(pos.takeProfitPrice) /\ ~IsNum(pos.takeProfitPrice)
     \/ pos.holdSide = ""

\* entry_price: the first truthy of averageOpenPrice / averageOpenPriceUsd,
\* None when absent or when float() rejects it.
EntryPrice(pos) ==
  LET raw == IF Truthy(pos.averageOpenPrice) THEN pos.averageOpenPrice
             ELSE pos.averageOpenPriceUsd
  IN IF IsNum(raw) THEN raw ELSE NoneV

\* The dictionary entry written for a raw position of positive size.
PositionEntry(pos) ==
  [symbol |-> pos.symbol, size |-> HoldSize(pos), side |-> pos.holdSide,
   entry_price |-> EntryPrice(pos),
   stop_loss_price |-> pos.stopLossPrice,
   take_profit_price |-> pos.takeProfitPrice]

\* open_positions[symbol] = entry: a known key keeps its place in the
\* iteration order and has its value overwritten, a new key is appended.
DictSet(acc, entry) ==
  IF \E i \in 1..Len(acc) : acc[i].symbol = entry.symbol
  THEN [i \in 1..Len(acc) |-> IF acc[i].symbol = entry.symbol THEN entry ELSE acc[i]]
  ELSE Append(acc, entry)

RECURSIVE CollectPositions(_, _)
CollectPositions(raw, acc) ==
  IF raw = <<>> THEN acc
  ELSE LET pos == Head(raw)
       IN IF TotalUnparseable(pos) \/ HoldSize(pos) <= 0
          THEN CollectPositions(Tail(raw), acc)
          ELSE CollectPositions(Tail(raw), DictSet(acc, PositionEntry(pos)))

\* get_all_open_positions on the answer of the position query: the dictionary
\* (in iteration order), empty when the query failed, or an exception leaving
\* the function.
get_all_open_positions(result, raw) ==
  IF result # "ok" THEN [fault |-> FALSE, positions |-> <<>>]
  ELSE IF \E i \in 1..Len(raw) : RecordFaults(raw[i])
       THEN [fault |-> TRUE, positions |-> <<>>]
       ELSE [fault |-> FALSE, positions |-> CollectPositions(raw, <<>>)]

ClosingSides == {"close_long", "close_short"}

\* An order record get_sl_and_tp_orders collects: all four keys present, a
\* closing side, size and triggerPrice accepted by float().
OrderCollected(order) ==
  /\ order.symbol # "" /\ order.orderId # 0
  /\ Truthy(order.size) /\ Truthy(order.triggerPrice)
  /\ order.side \in ClosingSides
  /\ IsNum(order.size) /\ IsNum(order.triggerPrice)

OrderData(order) ==
  [symbol |-> order.symbol, planId |-> order.orderId, size |-> order.size[2],
   triggerPrice |-> order.triggerPrice[2], side |-> order.side,
   orderType |-> order.orderType]

RECURSIVE CollectOrders(_)
CollectOrders(raw) ==
  IF raw = <<>> THEN <<>>
  ELSE IF OrderCollected(Head(raw))
       THEN <<OrderData(Head(raw))>> \o CollectOrders(Tail(raw))
       ELSE CollectOrders(Tail(raw))

\* The collection run on the listing whatever the query returned.
get_sl_and_tp_orders_unchecked(result, raw) == CollectOrders(raw)

\* get_sl_and_tp_orders on the answer of the plan-order query: the collected
\* orders in snapshot order (all_plan_orders[symbol] is the subsequence of one
\* symbol); empty when the query failed.
get_sl_and_tp_orders(result, raw) ==
  IF result # "ok" THEN <<>> ELSE CollectOrders(raw)

RECURSIVE OrdersOf(_, _)
\* all_plan_orders.get(symbol, [])
OrdersOf(orders, sym) ==
  IF orders = <<>> THEN <<>>
  ELSE IF Head(orders).symbol = sym
       THEN <<Head(orders)>> \o OrdersOf(Tail(orders), sym)
       ELSE OrdersOf(Tail(orders), sym)

\* set(all_plan_orders.keys())
OrderSymbols(orders) == {orders[i].symbol : i \in 1..Len(orders)}
\* set(open_positions.keys())
ActiveSymbols(positions) == {positions[i].symbol : i \in 1..Len(positions)}

\* ------------------------------------------------------------ commands
\* One command sent to the exchange and what make_api_request returned for it.
\* step names the place in the pass that sent it: "conflict" (lines 484-495),
\* "consolidate" (516-521), "replace" (cancel_and_replace_sl), "orphan"
\* (cancel_orphan_plan_orders). A cancel carries the plan id; a place carries
\* the payload of lines 342-352 and no id.
CancelCmd(sym, plan_id, result, step) ==
  [op |-> "cancel", symbol |-> sym, orderId |-> plan_id, size |-> 0, side |-> "",
   triggerPrice |-> 0, orderType |-> "", result |-> result, step |-> step]

PlaceCmd(sym, size, side, trig, result) ==
  [op |-> "place", symbol |-> sym, orderId |-> 0, size |-> size, side |-> side,
   triggerPrice |-> trig, orderType |-> "limit", result |-> result, step |-> "replace"]

\* cancel_conditional_order: one cancel request, its answer through
\* make_api_request.
cancel_conditional_order(sym, plan_id, answers, step) ==
  CancelCmd(sym, plan_id, make_api_request(answers[plan_id]), step)

\* A for-loop of cancel_conditional_order over a list of orders.
CancelEach(sym, orders, answers, step) ==
  [i \in 1..Len(orders) |-> cancel_conditional_order(sym, orders[i].planId, answers, step)]

\* ------------------------------------------------------------ classifier
EntryKnown(pos_data) == IsNum(pos_data.entry_price) /\ pos_data.entry_price[2] > 0

\* The test that takes every closing order for one closing the position.
is_closing_order_any(position_side, order_side) == order_side \in ClosingSides

is_closing_order(position_side, order_side) ==
  \/ position_side = "long" /\ order_side = "close_long"
  \/ position_side = "short" /\ order_side = "close_short"

is_sl(position_side, trigger_price, entry_price) ==
  \/ position_side = "long" /\ trigger_price < entry_price
  \/ position_side = "short" /\ trigger_price > entry_price

\* The filter both branches apply first: any orderType but "limit" is ignored.
PassesTypeFilter(order) == order.orderType = "limit"

\* The candidate list of the fallback branch taken whatever the entry price:
\* every limit order closing the position's side.
sl_orders_for_symbol_fallback(pos_data, potential_plan_orders) ==
  SelectSeq(potential_plan_orders,
    LAMBDA order :
      /\ PassesTypeFilter(order)
      /\ is_closing_order(pos_data.side, order.side))

\* sl_orders_for_symbol after the loops of lines 424-476.
sl_orders_for_symbol(pos_data, potential_plan_orders) ==
  SelectSeq(potential_plan_orders,
    LAMBDA order :
      /\ PassesTypeFilter(order)
      /\ is_closing_order(pos_data.side, order.side)
      /\ (EntryKnown(pos_data) =>
            is_sl(pos_data.side, order.triggerPrice, pos_data.entry_price[2])))

\* tp_orders_for_symbol after the loops of lines 424-476: filled only in the
\* branch with a known entry price.
tp_orders_for_symbol(pos_data, potential_plan_orders) ==
  SelectSeq(potential_plan_orders,
    LAMBDA order :
      /\ EntryKnown(pos_data)
      /\ PassesTypeFilter(order)
      /\ is_closing_order(pos_data.side, order.side)
      /\ ~is_sl(pos_data.side, order.triggerPrice, pos_data.entry_price[2]))

\* The check of line 480 reading the attached take-profit price instead.
HasAttachedTp(pos_data) ==
  IsNum(pos_data.take_profit_price) /\ pos_data.take_profit_price[2] > 0

\* attached_sl_price and attached_sl_price > 0
HasAttachedSl(pos_data) ==
  IsNum(pos_data.stop_loss_price) /\ pos_data.stop_loss_price[2] > 0

\* ------------------------------------------------------------ consolidator
\* The choice with max and min swapped.
optimal_sl_swapped(position_side, sl_orders) ==
  LET best(i) == \A j \in 1..Len(sl_orders) :
                   IF position_side = "long"
                   THEN sl_orders[j].triggerPrice >= sl_orders[i].triggerPrice
                   ELSE sl_orders[j].triggerPrice <= sl_orders[i].triggerPrice
      k == CHOOSE i \in 1..Len(sl_orders) : best(i) /\ \A j \in 1..(i - 1) : ~best(j)
  IN sl_orders[k]

\* max(..., key=triggerPrice) for a long position, min(...) otherwise: Python
\* returns the first element of the list that attains the extreme.
optimal_sl(position_side, sl_orders) ==
  LET best(i) == \A j \in 1..Len(sl_orders) :
                   IF position_side = "long"
                   THEN sl_orders[j].triggerPrice <= sl_orders[i].triggerPrice
                   ELSE sl_orders[j].triggerPrice >= sl_orders[i].triggerPrice
      k == CHOOSE i \in 1..Len(sl_orders) : best(i) /\ \A j \in 1..(i - 1) : ~best(j)
  IN sl_orders[k]

\* The duplicates told apart by trigger price instead of plan id.
orders_to_cancel_by_trigger(sl_orders, optimal) ==
  SelectSeq(sl_orders, LAMBDA o : o.triggerPrice # optimal.triggerPrice)

orders_to_cancel(sl_orders, optimal) ==
  SelectSeq(sl_orders, LAMBDA o : o.planId # optimal.planId)

\* sl_data handed to the size check: with several candidates the optimal one,
\* its size raised by the sizes of the cancelled ones; with one, that one.
sl_data(position_side, sl_orders) ==
  IF Len(sl_orders) > 1
  THEN LET optimal == optimal_sl(position_side, sl_orders)
       IN [optimal EXCEPT !.size = optimal.size
                                   + SumSizes(orders_to_cancel(sl_orders, optimal))]
  ELSE sl_orders[1]

\* The size check without its tolerance.
NeedsCorrectionNoTolerance(registered_sl_size, current_size) ==
  registered_sl_size >= current_size

\* registered_sl_size > current_size + 0.0001
NeedsCorrection(registered_sl_size, current_size) ==
  registered_sl_size > current_size + Tolerance

\* ------------------------------------------------------------ size corrector
\* The replacement placing the new order with the size of the old one.
cancel_and_replace_sl_oldsize(sym, old_sl, new_size, position_side, answers, place_answer) ==
  LET cancel == cancel_conditional_order(sym, old_sl.planId, answers, "replace")
  IN IF cancel.result = "error" THEN <<cancel>>
     ELSE <<cancel,
            PlaceCmd(sym, Round4(old_sl.size),
                     IF position_side = "long" THEN "close_long" ELSE "close_short",
                     Round4(old_sl.triggerPrice), make_api_request(place_answer))>>

\* The replacement with the gate "if not cancel_result": {} stops it as None
\* does.
cancel_and_replace_sl_strict(sym, old_sl, new_size, position_side, answers, place_answer) ==
  LET cancel == cancel_conditional_order(sym, old_sl.planId, answers, "replace")
  IN IF cancel.result # "ok" THEN <<cancel>>
     ELSE <<cancel,
            PlaceCmd(sym, Round4(new_size),
                     IF position_side = "long" THEN "close_long" ELSE "close_short",
                     Round4(old_sl.triggerPrice), make_api_request(place_answer))>>

\* The replacement without its gate: the place is sent whatever the cancel
\* returned.
cancel_and_replace_sl_ungated(sym, old_sl, new_size, position_side, answers, place_answer) ==
  <<cancel_conditional_order(sym, old_sl.planId, answers, "replace"),
    PlaceCmd(sym, Round4(new_size),
             IF position_side = "long" THEN "close_long" ELSE "close_short",
             Round4(old_sl.triggerPrice), make_api_request(place_answer))>>

\* cancel_and_replace_sl: the cancel, and unless it returned None (or the
\* position side is unknown) the place of the new order.
cancel_and_replace_sl(sym, old_sl, new_size, position_side, answers, place_answer) ==
  LET cancel == cancel_conditional_order(sym, old_sl.planId, answers, "replace")
      new_side == IF position_side = "long" THEN "close_long" ELSE "close_short"
  IN IF cancel.result = "error" THEN <<cancel>>
     ELSE IF position_side \notin {"long", "short"} THEN <<cancel>>
     ELSE <<cancel,
            PlaceCmd(sym, Round4(new_size), new_side, Round4(old_sl.triggerPrice),
                     make_api_request(place_answer))>>

\* ------------------------------------------------------------ one position
\* The body of the loop over open_positions (lines 415-556): the commands it
\* sends for one position, in order.
PositionCmds(pos_data, plan_orders, answers, place_answer) ==
  LET potential == OrdersOf(plan_orders, pos_data.symbol)
      sl == sl_orders_for_symbol(pos_data, potential)
      tp == tp_orders_for_symbol(pos_data, potential)
  IN IF HasAttachedSl(pos_data)
     THEN CancelEach(pos_data.symbol, sl, answers, "conflict")
            \o CancelEach(pos_data.symbol, tp, answers, "conflict")
     ELSE IF Len(sl) = 0 THEN <<>>
     ELSE LET eff == sl_data(pos_data.side, sl)
              dup == IF Len(sl) > 1
                     THEN orders_to_cancel(sl, optimal_sl(pos_data.side, sl))
                     ELSE <<>>
          IN CancelEach(pos_data.symbol, dup, answers, "consolidate")
               \o (IF NeedsCorrection(eff.size, pos_data.size)
                   THEN cancel_and_replace_sl(pos_data.symbol, eff, pos_data.size,
                                              pos_data.side, answers, place_answer)
                   ELSE <<>>)

\* The report made only for a symbol without any collected order.
MissingSl_no_orders(pos_data, plan_orders) ==
  /\ ~HasAttachedSl(pos_data)
  /\ OrdersOf(plan_orders, pos_data.symbol) = <<>>

\* The position is appended to missing_sl_symbols (lines 531-535).
MissingSl(pos_data, plan_orders) ==
  /\ ~HasAttachedSl(pos_data)
  /\ sl_orders_for_symbol(pos_data, OrdersOf(plan_orders, pos_data.symbol)) = <<>>

\* corrected_count += 1 (line 554).
Corrected(pos_data, plan_orders) ==
  LET sl == sl_orders_for_symbol(pos_data, OrdersOf(plan_orders, pos_data.symbol))
  IN /\ ~HasAttachedSl(pos_data)
     /\ sl # <<>>
     /\ NeedsCorrection(sl_data(pos_data.side, sl).size, pos_data.size)

\* ------------------------------------------------------------ orphan sweeper
\* The sweep without the difference: every symbol that has orders.
orphan_symbols_all(positions, plan_orders) == OrderSymbols(plan_orders)

\* order_symbols.difference(active_symbols)
orphan_symbols(positions, plan_orders) ==
  OrderSymbols(plan_orders) \ ActiveSymbols(positions)

RECURSIVE SweepCmds(_, _, _)
\* The loops of cancel_orphan_plan_orders over the orphan symbols, taken in the
\* order sym_order (a Python set has no fixed iteration order).
SweepCmds(sym_order, plan_orders, answers) ==
  IF sym_order = <<>> THEN <<>>
  ELSE CancelEach(Head(sym_order), OrdersOf(plan_orders, Head(sym_order)), answers, "orphan")
         \o SweepCmds(Tail(sym_order), plan_orders, answers)

cancel_orphan_plan_orders(positions, plan_orders, sym_order, answers) ==
  SweepCmds(sym_order, plan_orders, answers)

\* ------------------------------------------------------------ exchange
\* Plan ids a command sequence removes from the exchange: a cancel that
\* succeeded, or one answered "does not exist" (the order is gone already).
Removed(cs) ==
  {cs[i].orderId : i \in {j \in 1..Len(cs) : cs[j].op = "cancel" /\ cs[j].result # "error"}}

\* The orders a command sequence adds: one per accepted place, under the next
\* id of the exchange.
Placed(cs, id) ==
  {RawOrder(id, cs[i].symbol, cs[i].side, Num(cs[i].size), Num(cs[i].triggerPrice),
            cs[i].orderType)
     : i \in {j \in 1..Len(cs) : cs[j].op = "place" /\ cs[j].result = "ok"}}

Exchange(orders, cs, id) ==
  {o \in orders : o.orderId \notin Removed(cs)} \cup Placed(cs, id)

AllEffective(cs) == \A i \in 1..Len(cs) : cs[i].result = "ok"

PlanIds(orders) == {orders[i].planId : i \in 1..Len(orders)}

\* ------------------------------------------------------------ state
VARIABLES
  exPositions,        \* the exchange: raw position records, in answer order
  exOrders,           \* the exchange: the raw conditional orders it holds
  nextId,             \* the exchange: id of the next order it accepts
  passNo,             \* main_loop runs started so far
  pc,                 \* where the running pass stands
  pos_result,         \* make_api_request's return for the position query
  ord_result,         \* make_api_request's return for the plan-order query
  plan_orders_raw,    \* get_sl_and_tp_orders: the list the query returned
  open_positions,     \* run_sl_correction_check: open_positions, in dict order
  all_plan_orders,    \* run_sl_correction_check: all_plan_orders, flattened
  idx,                \* index of the position the for-loop handles next
  cmds,               \* commands this pass has sent, with their results
  missing_sl_symbols, \* run_sl_correction_check: missing_sl_symbols
  corrected_count,    \* run_sl_correction_check: corrected_count
  fault,              \* main_loop caught an exception of this pass
  summary,            \* the closing line 564 has been logged
  prevEffective       \* the pass before this one saw both snapshots and
                      \* every command it sent took effect

vars == <<exPositions, exOrders, nextId, passNo, pc, pos_result, ord_result,
          plan_orders_raw, open_positions, all_plan_orders, idx, cmds, missing_sl_symbols,
          corrected_count, fault, summary, prevEffective>>

exchange == <<exPositions, exOrders, nextId>>

Init ==
  /\ exPositions \in PositionSnapshots
  /\ exOrders \in OrderSnapshots
  /\ nextId = FirstNewId
  /\ passNo = 1
  /\ pc = "positions"
  /\ pos_result = "pending"
  /\ ord_result = "pending"
  /\ plan_orders_raw = <<>>
  /\ open_positions = <<>>
  /\ all_plan_orders = <<>>
  /\ idx = 1
  /\ cmds = <<>>
  /\ missing_sl_symbols = <<>>
  /\ corrected_count = 0
  /\ fault = FALSE
  /\ summary = FALSE
  /\ prevEffective = FALSE

\* ------------------------------------------------------------ the pass
\* The position query under a main_loop without its except clause: the
\* exception of the normalizer ends the program where it stands.
QueryPositions_uncaught ==
  /\ pc = "positions"
  /\ \E answer \in QueryAnswers :
       LET result == make_api_request(answer)
           got == get_all_open_positions(result, exPositions)
       IN /\ pos_result' = result
          /\ fault' = got.fault
          /\ open_positions' = got.positions
          /\ pc' = IF got.fault THEN "crashed" ELSE "orders"
  /\ UNCHANGED <<exchange, passNo, ord_result, plan_orders_raw, all_plan_orders, idx, cmds,
                 missing_sl_symbols, corrected_count, summary, prevEffective>>

\* Line 402: the position query and its normalization. An exception of
\* get_all_open_positions leaves run_sl_correction_check and is caught by
\* main_loop (lines 573-576), which ends the pass.
QueryPositions ==
  /\ pc = "positions"
  /\ \E answer \in QueryAnswers :
       LET result == make_api_request(answer)
           got == get_all_open_positions(result, exPositions)
       IN /\ pos_result' = result
          /\ fault' = got.fault
          /\ open_positions' = got.positions
          /\ pc' = IF got.fault THEN "done" ELSE "orders"
  /\ UNCHANGED <<exchange, passNo, ord_result, plan_orders_raw, all_plan_orders, idx, cmds,
                 missing_sl_symbols, corrected_count, summary, prevEffective>>

\* Line 404: the plan-order query, answered with a listing of the orders the
\* exchange holds, and its normalization; then the branch of line 406.
QueryOrders ==
  /\ pc = "orders"
  /\ \E answer \in QueryAnswers, raw \in Listings(exOrders) :
       LET result == make_api_request(answer)
       IN /\ ord_result' = result
          /\ plan_orders_raw' = IF result = "ok" THEN raw ELSE <<>>
          /\ all_plan_orders' = get_sl_and_tp_orders(result, raw)
  /\ pc' = IF open_positions = <<>> THEN "sweep" ELSE "check"
  /\ UNCHANGED <<exchange, passNo, pos_result, open_positions, idx, cmds,
                 missing_sl_symbols, corrected_count, fault, summary, prevEffective>>

\* The turn of the loop under a replacement that raises when its cancel
\* returns None: the exception ends the pass.
CheckPosition_abort ==
  /\ pc = "check"
  /\ idx <= Len(open_positions)
  /\ LET pos_data == open_positions[idx]
         potential == OrdersOf(all_plan_orders, pos_data.symbol)
         ids == PlanIds(sl_orders_for_symbol(pos_data, potential))
                  \cup PlanIds(tp_orders_for_symbol(pos_data, potential))
     IN /\ \E answers \in [ids -> CancelAnswers], place_answer \in PlaceAnswers :
             LET sent == PositionCmds(pos_data, all_plan_orders, answers, place_answer)
                 failed == \E k \in 1..Len(sent) :
                             sent[k].step = "replace" /\ sent[k].result = "error"
             IN /\ cmds' = cmds \o sent
                /\ exOrders' = Exchange(exOrders, sent, nextId)
                /\ nextId' = nextId + Cardinality(Placed(sent, nextId))
                /\ fault' = failed
                /\ pc' = IF failed \/ idx = Len(open_positions) THEN
                            (IF failed THEN "done" ELSE "sweep")
                          ELSE "check"
        /\ missing_sl_symbols' =
             IF MissingSl(pos_data, all_plan_orders)
             THEN Append(missing_sl_symbols, pos_data.symbol)
             ELSE missing_sl_symbols
        /\ corrected_count' =
             IF Corrected(pos_data, all_plan_orders)
             THEN corrected_count + 1 ELSE corrected_count
  /\ idx' = idx + 1
  /\ UNCHANGED <<exPositions, passNo, pos_result, ord_result, plan_orders_raw,
                 open_positions, all_plan_orders, summary, prevEffective>>

\* One turn of the loop of lines 415-556 for open_positions[idx].
CheckPosition ==
  /\ pc = "check"
  /\ idx <= Len(open_positions)
  /\ LET pos_data == open_positions[idx]
         potential == OrdersOf(all_plan_orders, pos_data.symbol)
         ids == PlanIds(sl_orders_for_symbol(pos_data, potential))
                  \cup PlanIds(tp_orders_for_symbol(pos_data, potential))
     IN /\ \E answers \in [ids -> CancelAnswers], place_answer \in PlaceAnswers :
             LET sent == PositionCmds(pos_data, all_plan_orders, answers, place_answer)
             IN /\ cmds' = cmds \o sent
                /\ exOrders' = Exchange(exOrders, sent, nextId)
                /\ nextId' = nextId + Cardinality(Placed(sent, nextId))
        /\ missing_sl_symbols' =
             IF MissingSl(pos_data, all_plan_orders)
             THEN Append(missing_sl_symbols, pos_data.symbol)
             ELSE missing_sl_symbols
        /\ corrected_count' =
             IF Corrected(pos_data, all_plan_orders)
             THEN corrected_count + 1 ELSE corrected_count
  /\ idx' = idx + 1
  /\ pc' = IF idx = Len(open_positions) THEN "sweep" ELSE "check"
  /\ UNCHANGED <<exPositions, passNo, pos_result, ord_result, plan_orders_raw,
                 open_positions, all_plan_orders, fault, summary, prevEffective>>

\* cancel_orphan_plan_orders, called from line 409 (no open position, the pass
\* returns without the closing line) or from line 562 (closing line 564).
SweepOrphans ==
  /\ pc = "sweep"
  /\ LET orphans == orphan_symbols(open_positions, all_plan_orders)
         ids == {all_plan_orders[i].planId :
                   i \in {j \in 1..Len(all_plan_orders) :
                            all_plan_orders[j].symbol \in orphans}}
     IN \E sym_order \in Perms(orphans), answers \in [ids -> CancelAnswers] :
          LET sent == cancel_orphan_plan_orders(open_positions, all_plan_orders,
                                                sym_order, answers)
          IN /\ cmds' = cmds \o sent
             /\ exOrders' = Exchange(exOrders, sent, nextId)
  /\ summary' = (open_positions # <<>>)
  /\ pc' = "done"
  /\ UNCHANGED <<exPositions, nextId, passNo, pos_result, ord_result,
                 plan_orders_raw, open_positions, all_plan_orders, idx, missing_sl_symbols,
                 corrected_count, fault, prevEffective>>

\* The external trigger starts main_loop again after the pass has ended.
NextPass ==
  /\ pc = "done"
  /\ passNo < MaxPasses
  /\ passNo' = passNo + 1
  /\ prevEffective' = (pos_result = "ok" /\ ord_result = "ok" /\ AllEffective(cmds))
  /\ pc' = "positions"
  /\ pos_result' = "pending"
  /\ ord_result' = "pending"
  /\ plan_orders_raw' = <<>>
  /\ open_positions' = <<>>
  /\ all_plan_orders' = <<>>
  /\ idx' = 1
  /\ cmds' = <<>>
  /\ missing_sl_symbols' = <<>>
  /\ corrected_count' = 0
  /\ fault' = FALSE
  /\ summary' = FALSE
  /\ UNCHANGED exchange

\* The program: one pass of main_loop.
Next ==
  \/ QueryPositions
  \/ QueryOrders
  \/ CheckPosition
  \/ SweepOrphans

Spec == Init /\ [][Next]_vars

\* One pass under the asyncio event loop, which runs the coroutine until it
\* returns: a step that can be taken is eventually taken.
\* Its runs start from the snapshots that decide how a pass ends: the regular
\* long position, the record whose attached stop price float() rejects, or no
\* position, with up to MaxOrders of three of the orders.
FairPositionSnapshots ==
  {s \in PositionSnapshots :
     \A i \in 1..Len(s) :
       s[i] \in {BtcLong, [BtcLong EXCEPT !.stopLossPrice = BadV], EthLong}}

FairOrderSnapshots == {s \in OrderSnapshots : \A o \in s : o.orderId \in {1, 2, 11}}

FairInit ==
  /\ Init
  /\ exPositions \in FairPositionSnapshots
  /\ exOrders \in FairOrderSnapshots

FairSpec == FairInit /\ [][Next]_vars /\ WF_vars(Next)

\* The program started again by its external trigger, up to MaxPasses runs.
NextRepeat ==
  \/ Next
  \/ NextPass

SpecRepeat == Init /\ [][NextRepeat]_vars

\* ------------------------------------------------------------ properties
\* The commands of this pass for one symbol, in order.
CmdsOf(sym) == SelectSeq(cmds, LAMBDA c : c.symbol = sym)

\* Number of cancel commands of this pass that name a plan id.
CancelCount(plan_id) ==
  Cardinality({k \in 1..Len(cmds) : cmds[k].op = "cancel" /\ cmds[k].orderId = plan_id})

\* Number of place commands of this pass for a symbol.
PlaceCount(sym) ==
  Cardinality({k \in 1..Len(cmds) : cmds[k].op = "place" /\ cmds[k].symbol = sym})

\* The loop has finished the turn of open_positions[i].
Processed(i) ==
  /\ i \in 1..Len(open_positions)
  /\ pc \in {"sweep", "done"} \/ (pc = "check" /\ i < idx)

\* The stop-loss candidates of open_positions[i].
Candidates(i) ==
  sl_orders_for_symbol(open_positions[i],
                       OrdersOf(all_plan_orders, open_positions[i].symbol))

\* The take-profit candidates of open_positions[i].
TakeProfits(i) ==
  tp_orders_for_symbol(open_positions[i],
                       OrdersOf(all_plan_orders, open_positions[i].symbol))

\* open_positions[i] carries a native stop price.
Attached(i) ==
  /\ open_positions[i].stop_loss_price[1] = "num"
  /\ open_positions[i].stop_loss_price[2] > 0

ClosingSideOf(position_side) ==
  IF position_side = "long" THEN "close_long"
  ELSE IF position_side = "short" THEN "close_short"
  ELSE "none"

\* Symbols with a live position in the position snapshot the pass received: a
\* record whose total parses to more than 0 (none when the query failed).
LiveSymbols ==
  IF pos_result # "ok" THEN {}
  ELSE {exPositions[i].symbol :
          i \in {j \in 1..Len(exPositions) :
                   exPositions[j].total[1] = "num" /\ exPositions[j].total[2] > 0}}

\* C1: Idempotence. When the pass before saw both snapshots and every command
\* it sent took effect, a pass that again receives both snapshots sends no
\* cancel and no place command.
C1_Idempotent ==
  (passNo > 1 /\ prevEffective /\ pos_result # "error" /\ ord_result # "error")
    => cmds = <<>>

\* C1 witness: the second pass has ended after a first, effective pass that
\* replaced a stop-loss (the exchange holds an order it assigned the id of).
C1_Witness ==
  /\ passNo = 2 /\ prevEffective /\ pc = "done"
  /\ pos_result = "ok" /\ ord_result = "ok"
  /\ summary
  /\ \E o \in exOrders : o.orderId >= FirstNewId

\* C2 as stated: the effective stop-loss is cancelled and a place with the
\* position size, the closing side and the same trigger follows exactly when
\* the effective size exceeds position size + 0.0001; otherwise the effective
\* order gets no cancel and the symbol no place.
C2_Original ==
  \A i \in 1..Len(open_positions) :
    (Processed(i) /\ ~Attached(i) /\ Candidates(i) # <<>>) =>
      LET p == open_positions[i]
          eff == sl_data(p.side, Candidates(i))
          over == eff.size > p.size + Tolerance
          replaced ==
            \E k \in 1..(Len(cmds) - 1) :
              /\ cmds[k].op = "cancel" /\ cmds[k].orderId = eff.planId
              /\ cmds[k + 1].op = "place" /\ cmds[k + 1].symbol = p.symbol
              /\ cmds[k + 1].size = p.size
              /\ cmds[k + 1].side = ClosingSideOf(p.side)
              /\ cmds[k + 1].triggerPrice = eff.triggerPrice
      IN /\ replaced <=> over
         /\ ~over => (CancelCount(eff.planId) = 0 /\ PlaceCount(p.symbol) = 0)

\* C2 amended: the effective stop-loss is cancelled exactly when the effective
\* size exceeds position size + 0.0001; the place follows that cancel exactly
\* when the cancel did not return a hard error, and carries the position size
\* and the trigger price rounded to four decimals and the closing side;
\* otherwise the effective order gets no cancel and the symbol no place.
C2_SizeCorrection ==
  \A i \in 1..Len(open_positions) :
    (Processed(i) /\ ~Attached(i) /\ Candidates(i) # <<>>) =>
      LET p == open_positions[i]
          eff == sl_data(p.side, Candidates(i))
          over == eff.size > p.size + Tolerance
          cancels == {k \in 1..Len(cmds) :
                        cmds[k].op = "cancel" /\ cmds[k].orderId = eff.planId}
          places == {k \in 1..Len(cmds) :
                       cmds[k].op = "place" /\ cmds[k].symbol = p.symbol}
      IN /\ Cardinality(cancels) = (IF over THEN 1 ELSE 0)
         /\ \A k \in cancels :
              (cmds[k].result # "error") <=> (k + 1 \in places)
         /\ \A k \in places :
              /\ k - 1 \in cancels
              /\ cmds[k].size = Round4(p.size)
              /\ cmds[k].side = ClosingSideOf(p.side)
              /\ cmds[k].triggerPrice = Round4(eff.triggerPrice)

\* C2 witness: one position had its oversized stop-loss replaced and another,
\* with a stop-loss within the tolerance, was left alone.
C2_Witness ==
  /\ pc = "done"
  /\ \E k \in 1..Len(cmds) : cmds[k].op = "place"
  /\ \E i \in 1..Len(open_positions) :
       /\ ~Attached(i) /\ Candidates(i) # <<>>
       /\ sl_data(open_positions[i].side, Candidates(i)).size
            <= open_positions[i].size + Tolerance
       /\ CmdsOf(open_positions[i].symbol) = <<>>

\* An order record of the plan-order answer that carries all four keys, a
\* size and a trigger price float() accepts, and a closing side.
WellFormedClosing(order) ==
  /\ order.orderId # 0 /\ order.symbol # ""
  /\ order.size[1] = "num" /\ order.triggerPrice[1] = "num"
  /\ order.side \in {"close_long", "close_short"}

C4_Claim == pos_result = "error" => cmds = <<>>

\* C5: every place command directly follows the cancel of the effective
\* stop-loss of its symbol, sent by the replacement and not answered with a
\* hard error; a symbol whose gating cancel returned a hard error gets no
\* place command.
C5_CancelBeforePlace ==
  /\ \A k \in 1..Len(cmds) :
       cmds[k].op = "place" =>
         /\ k > 1
         /\ cmds[k - 1].op = "cancel"
         /\ cmds[k - 1].step = "replace"
         /\ cmds[k - 1].symbol = cmds[k].symbol
         /\ cmds[k - 1].result # "error"
         /\ \E i \in 1..Len(open_positions) :
              /\ open_positions[i].symbol = cmds[k].symbol
              /\ Candidates(i) # <<>>
              /\ cmds[k - 1].orderId
                   = sl_data(open_positions[i].side, Candidates(i)).planId
  /\ \A j \in 1..Len(cmds) :
       (cmds[j].step = "replace" /\ cmds[j].op = "cancel" /\ cmds[j].result = "error")
         => PlaceCount(cmds[j].symbol) = 0

\* C5 witness: one replacement placed its order, another stopped at the hard
\* error of its cancel.
C5_Witness ==
  /\ \E k \in 1..Len(cmds) : cmds[k].op = "place"
  /\ \E j \in 1..Len(cmds) :
       cmds[j].step = "replace" /\ cmds[j].op = "cancel" /\ cmds[j].result = "error"

\* C6: with more than one stop-loss candidate and no attached stop, exactly
\* one candidate is spared by the consolidation; it has the highest trigger
\* price of the candidates for a long position and the lowest for a short one,
\* a replacement cancels no other order than it, and every other candidate
\* gets exactly one cancel.
C6_ConsolidationChoice ==
  \A i \in 1..Len(open_positions) :
    (Processed(i) /\ ~Attached(i) /\ Len(Candidates(i)) > 1) =>
      LET p == open_positions[i]
          c == Candidates(i)
          kept == {k \in 1..Len(c) :
                     ~\E n \in 1..Len(cmds) :
                        cmds[n].step = "consolidate" /\ cmds[n].orderId = c[k].planId}
      IN /\ Cardinality(kept) = 1
         /\ \A k \in kept :
              /\ \A j \in 1..Len(c) :
                   /\ p.side = "long" => c[j].triggerPrice <= c[k].triggerPrice
                   /\ p.side = "short" => c[j].triggerPrice >= c[k].triggerPrice
              /\ \A n \in 1..Len(cmds) :
                   (cmds[n].step = "replace" /\ cmds[n].op = "cancel"
                      /\ cmds[n].symbol = p.symbol)
                     => cmds[n].orderId = c[k].planId
         /\ \A j \in (1..Len(c)) \ kept : CancelCount(c[j].planId) = 1

\* C6 witness: a position whose candidates have different trigger prices has
\* been consolidated.
C6_Witness ==
  \E i \in 1..Len(open_positions) :
    /\ Processed(i) /\ ~Attached(i)
    /\ \E j, k \in 1..Len(Candidates(i)) :
         Candidates(i)[j].triggerPrice < Candidates(i)[k].triggerPrice
    /\ \E n \in 1..Len(cmds) :
         cmds[n].step = "consolidate" /\ cmds[n].symbol = open_positions[i].symbol

\* C7: for a position with an attached stop price every order classified
\* stop_loss or take_profit gets a cancel (exactly one), the symbol gets no
\* place command, and nothing of consolidation or size correction is sent for it.
C7_ConflictPrecedence ==
  \A i \in 1..Len(open_positions) :
    (Processed(i) /\ Attached(i)) =>
      LET sym == open_positions[i].symbol
          classified == Candidates(i) \o TakeProfits(i)
      IN /\ \A k \in 1..Len(classified) : CancelCount(classified[k].planId) = 1
         /\ PlaceCount(sym) = 0
         /\ \A n \in 1..Len(cmds) :
              cmds[n].symbol = sym => cmds[n].step = "conflict"
         /\ \A n \in 1..Len(missing_sl_symbols) : missing_sl_symbols[n] # sym

\* C7 witness: a position with an attached stop had a stop-loss and a
\* take-profit order cancelled as conflicts.
C7_Witness ==
  \E i \in 1..Len(open_positions) :
    /\ Processed(i) /\ Attached(i)
    /\ Candidates(i) # <<>> /\ TakeProfits(i) # <<>>
    /\ Len(CmdsOf(open_positions[i].symbol)) = 2

\* C8 as stated: for a position with unknown entry price every collected
\* order of its symbol that closes its side is a stop-loss candidate, none is
\* a take-profit, and a position with such an order is not reported as
\* missing its stop-loss.
C8_Claim ==
  \A i \in 1..Len(open_positions) :
    LET p == open_positions[i]
        orders == OrdersOf(all_plan_orders, p.symbol)
        closing == {k \in 1..Len(orders) : orders[k].side = ClosingSideOf(p.side)}
    IN (p.entry_price[1] # "num" \/ p.entry_price[2] <= 0) =>
         /\ \A k \in closing :
              \E j \in 1..Len(Candidates(i)) : Candidates(i)[j] = orders[k]
         /\ TakeProfits(i) = <<>>
         /\ (Processed(i) /\ closing # {} /\ ~Attached(i)) =>
              \A n \in 1..Len(missing_sl_symbols) : missing_sl_symbols[n] # p.symbol

\* A position record with a missing required key or a numeric field float()
\* rejects.
MalformedPosition(r) ==
  \/ r.symbol = "" \/ r.holdSide = ""
  \/ r.total[1] = "bad"
  \/ r.averageOpenPrice[1] = "bad" \/ r.averageOpenPriceUsd[1] = "bad"
  \/ r.stopLossPrice[1] = "bad" \/ r.takeProfitPrice[1] = "bad"

\* An order record with a missing required key or a numeric field float()
\* rejects.
MalformedOrder(o) ==
  \/ o.orderId = 0 \/ o.symbol = ""
  \/ o.size[1] # "num" \/ o.triggerPrice[1] # "num"

\* The commands the pass sends for symbol sym on the snapshots without their
\* malformed records, under given venue answers.
ExpectedCmds(sym, raw_positions, ord_res, raw_orders, answers, place_answer) ==
  LET positions ==
        get_all_open_positions("ok",
          SelectSeq(raw_positions, LAMBDA r : ~MalformedPosition(r))).positions
      orders ==
        get_sl_and_tp_orders(ord_res,
          SelectSeq(raw_orders, LAMBDA o : ~MalformedOrder(o)))
      at == {i \in 1..Len(positions) : positions[i].symbol = sym}
  IN IF at # {}
     THEN PositionCmds(positions[CHOOSE i \in at : TRUE], orders, answers, place_answer)
     ELSE CancelEach(sym, OrdersOf(orders, sym), answers, "orphan")

\* The venue answers agree with the results the pass has seen.
AgreesWithSeen(seen, answers, place_answer) ==
  \A k \in 1..Len(seen) :
    /\ (seen[k].op = "cancel" /\ seen[k].orderId \in DOMAIN answers)
         => seen[k].result = make_api_request(answers[seen[k].orderId])
    /\ seen[k].op = "place" => seen[k].result = make_api_request(place_answer)

\* C9 as stated: when records of another symbol are malformed, a symbol with
\* well-formed records gets exactly the commands the pass sends for it on the
\* snapshots without the malformed records, whatever the venue answers to the
\* requests (those the pass has not sent included).
C9_Claim ==
  (pc = "done" /\ pos_result = "ok") =>
    \A sym \in Symbols :
      LET queried == ord_result # "pending"
          listings == IF queried THEN {plan_orders_raw} ELSE Listings(exOrders)
          results == IF queried THEN {ord_result} ELSE {"ok", "error"}
          bad_here ==
            \/ \E k \in 1..Len(exPositions) :
                 MalformedPosition(exPositions[k]) /\ exPositions[k].symbol = sym
            \/ \E o \in exOrders : MalformedOrder(o) /\ o.symbol = sym
          bad_elsewhere ==
            \/ \E k \in 1..Len(exPositions) :
                 MalformedPosition(exPositions[k]) /\ exPositions[k].symbol # sym
            \/ \E raw \in listings : \E k \in 1..Len(raw) :
                 MalformedOrder(raw[k]) /\ raw[k].symbol # sym
      IN (bad_elsewhere /\ ~bad_here) =>
           \A raw \in listings, ord_res \in results :
             LET ids == {raw[k].orderId : k \in {j \in 1..Len(raw) : raw[j].symbol = sym}}
             IN \A answers \in [ids -> CancelAnswers], place_answer \in PlaceAnswers :
                  AgreesWithSeen(CmdsOf(sym), answers, place_answer) =>
                    CmdsOf(sym) = ExpectedCmds(sym, exPositions, ord_res, raw,
                                               answers, place_answer)

\* C10 as stated: after a cancel of the replacement answered "does not exist"
\* the place command is sent with the position size.
C10_Original ==
  \A k \in 1..Len(cmds) :
    (cmds[k].step = "replace" /\ cmds[k].op = "cancel" /\ cmds[k].result = "notfound") =>
      /\ k < Len(cmds)
      /\ cmds[k + 1].op = "place"
      /\ cmds[k + 1].symbol = cmds[k].symbol
      /\ \E i \in 1..Len(open_positions) :
           /\ open_positions[i].symbol = cmds[k].symbol
           /\ cmds[k + 1].size = open_positions[i].size

\* C10 amended: after a cancel of the replacement answered "does not exist"
\* the place command is sent as after a successful cancel: for the same
\* symbol, with the position size rounded to four decimals, the closing side
\* of the position and the rounded trigger price of the cancelled order.
C10_ToleratedNotFound ==
  \A k \in 1..Len(cmds) :
    (cmds[k].step = "replace" /\ cmds[k].op = "cancel" /\ cmds[k].result = "notfound") =>
      /\ k < Len(cmds)
      /\ cmds[k + 1].op = "place"
      /\ cmds[k + 1].symbol = cmds[k].symbol
      /\ \E i \in 1..Len(open_positions) :
           /\ open_positions[i].symbol = cmds[k].symbol
           /\ cmds[k + 1].size = Round4(open_positions[i].size)
           /\ cmds[k + 1].side = ClosingSideOf(open_positions[i].side)
           /\ \E j \in 1..Len(Candidates(i)) :
                /\ Candidates(i)[j].planId = cmds[k].orderId
                /\ cmds[k + 1].triggerPrice = Round4(Candidates(i)[j].triggerPrice)

\* C10 witness: a replacement whose cancel was answered "does not exist" has
\* placed the new order.
C10_Witness ==
  \E k \in 1..(Len(cmds) - 1) :
    /\ cmds[k].step = "replace" /\ cmds[k].op = "cancel" /\ cmds[k].result = "notfound"
    /\ cmds[k + 1].op = "place" /\ cmds[k + 1].result = "ok"

\* Sum of the sizes of a set of raw orders whose sizes parse.
RECURSIVE SumRawSizes(_)
SumRawSizes(S) ==
  IF S = {} THEN 0
  ELSE LET o == CHOOSE x \in S : TRUE
       IN o.size[2] + SumRawSizes(S \ {o})

\* The orders the exchange holds that guard open_positions[i] as stop-loss:
\* well-formed, closing the position's side, and with the trigger on the
\* losing side of a known entry price (every closing order when it is unknown),
\* whatever their order type.
StopLossOnExchange(i) ==
  LET p == open_positions[i]
  IN {o \in exOrders :
        /\ WellFormedClosing(o)
        /\ o.symbol = p.symbol
        /\ o.side = ClosingSideOf(p.side)
        /\ ((p.entry_price[1] = "num" /\ p.entry_price[2] > 0)
              => is_sl(p.side, o.triggerPrice[2], p.entry_price[2]))}

\* The pass has ended, it received both snapshots and every command it sent
\* took effect.
EffectivePassDone ==
  /\ pc = "done" /\ ~fault
  /\ pos_result = "ok" /\ ord_result = "ok"
  /\ AllEffective(cmds)

\* C11 as stated: after a pass in which every command took effect, the
\* stop-loss orders left on the exchange for a position that had more than one
\* stop-loss candidate have a total size of at least the smaller of the total
\* candidate size before the pass and the position size.
C11_Claim ==
  EffectivePassDone =>
    \A i \in 1..Len(open_positions) :
      (~Attached(i) /\ Len(Candidates(i)) > 1) =>
        LET before == SumSizes(Candidates(i))
            live == open_positions[i].size
        IN SumRawSizes(StopLossOnExchange(i))
             >= (IF before < live THEN before ELSE live)

\* C12 as stated: when two stop-loss candidates share the optimal trigger
\* price, the one with the larger size is kept as the effective order and the
\* smaller one gets the consolidation cancel, whatever the snapshot order.
C12_Claim ==
  \A i \in 1..Len(open_positions) :
    (Processed(i) /\ ~Attached(i) /\ Len(Candidates(i)) > 1) =>
      LET p == open_positions[i]
          c == Candidates(i)
          top(k) == \A j \in 1..Len(c) :
                      IF p.side = "long"
                      THEN c[j].triggerPrice <= c[k].triggerPrice
                      ELSE c[j].triggerPrice >= c[k].triggerPrice
      IN \A a, b \in 1..Len(c) :
           (top(a) /\ top(b) /\ c[a].size > c[b].size) =>
             /\ \E n \in 1..Len(cmds) :
                  cmds[n].step = "consolidate" /\ cmds[n].orderId = c[b].planId
             /\ ~\E n \in 1..Len(cmds) :
                   cmds[n].step = "consolidate" /\ cmds[n].orderId = c[a].planId

\* C13: every place command is sent for a symbol with a live position in the
\* position snapshot, carries that position's size rounded to four decimals
\* and the closing side of that position, and its size is strictly smaller
\* than the effective size of the stop-loss it replaces.
C13_NeverInventsSize ==
  \A k \in 1..Len(cmds) :
    cmds[k].op = "place" =>
      /\ cmds[k].symbol \in LiveSymbols
      /\ \E i \in 1..Len(open_positions) :
           LET p == open_positions[i]
           IN /\ p.symbol = cmds[k].symbol
              /\ \E n \in 1..Len(exPositions) :
                   /\ exPositions[n].symbol = p.symbol
                   /\ exPositions[n].holdSide = p.side
                   /\ exPositions[n].total = <<"num", p.size>>
              /\ cmds[k].size = Round4(p.size)
              /\ cmds[k].side = ClosingSideOf(p.side)
              /\ Candidates(i) # <<>>
              /\ cmds[k].size < sl_data(p.side, Candidates(i)).size
              /\ k > 1
              /\ cmds[k - 1].orderId = sl_data(p.side, Candidates(i)).planId

\* C13 witness: a place command whose size is the rounded size of a position
\* whose size has more than four decimals, replacing a consolidated stop-loss.
C13_Witness ==
  \E k \in 1..Len(cmds) : \E i \in 1..Len(open_positions) :
    /\ cmds[k].op = "place"
    /\ open_positions[i].symbol = cmds[k].symbol
    /\ open_positions[i].size # Round4(open_positions[i].size)
    /\ Len(Candidates(i)) > 1

C15_Claim ==
  \A i \in 1..Len(open_positions) :
    LET p == open_positions[i]
        orders == OrdersOf(all_plan_orders, p.symbol)
        InSl(o) == \E j \in 1..Len(Candidates(i)) : Candidates(i)[j] = o
        InTp(o) == \E j \in 1..Len(TakeProfits(i)) : TakeProfits(i)[j] = o
    IN (p.entry_price[1] = "num" /\ p.entry_price[2] > 0) =>
         \A k \in 1..Len(orders) :
           IF orders[k].side = ClosingSideOf(p.side)
           THEN LET losing == is_sl(p.side, orders[k].triggerPrice, p.entry_price[2])
                IN /\ InSl(orders[k]) <=> losing
                   /\ InTp(orders[k]) <=> ~losing
           ELSE ~InSl(orders[k]) /\ ~InTp(orders[k])

\* open_positions[i] carries a native take price and no native stop price.
AttachedTakeOnly(i) ==
  /\ ~Attached(i)
  /\ open_positions[i].take_profit_price[1] = "num"
  /\ open_positions[i].take_profit_price[2] > 0

\* C16 as stated: for a position with an attached take price and no attached
\* stop price every stop-loss or take-profit candidate gets a conflict cancel,
\* nothing of consolidation or size correction is sent for the symbol and no
\* place command.
C16_Claim ==
  \A i \in 1..Len(open_positions) :
    (Processed(i) /\ AttachedTakeOnly(i)) =>
      LET sym == open_positions[i].symbol
          classified == Candidates(i) \o TakeProfits(i)
      IN /\ \A k \in 1..Len(classified) :
              \E n \in 1..Len(cmds) :
                cmds[n].step = "conflict" /\ cmds[n].orderId = classified[k].planId
         /\ PlaceCount(sym) = 0
         /\ \A n \in 1..Len(cmds) :
              cmds[n].symbol = sym => cmds[n].step = "conflict"

\* C17 as stated: when the position snapshot holds a long and a short record
\* of nonzero size for one symbol, the normalized mapping holds both, each
\* with its own size.
C17_Claim ==
  (pos_result = "ok" /\ ~fault) =>
    \A a, b \in 1..Len(exPositions) :
      LET r == exPositions[a]
          q == exPositions[b]
      IN (/\ r.symbol = q.symbol
          /\ r.holdSide = "long" /\ q.holdSide = "short"
          /\ r.total[1] = "num" /\ r.total[2] > 0
          /\ q.total[1] = "num" /\ q.total[2] > 0) =>
           \A x \in {r, q} :
             \E i \in 1..Len(open_positions) :
               /\ open_positions[i].symbol = x.symbol
               /\ open_positions[i].side = x.holdSide
               /\ open_positions[i].size = x.total[2]

\* The orders the exchange holds that the classifier of the pass puts among
\* the stop-loss candidates of open_positions[i].
StopLossLeft(i) ==
  {o \in exOrders :
     /\ OrderCollected(o)
     /\ o.symbol = open_positions[i].symbol
     /\ sl_orders_for_symbol(open_positions[i], <<OrderData(o)>>) # <<>>}

\* C18 as stated: after a pass in which every command took effect, a position
\* without attached stop has at most one stop-loss order left on the exchange
\* and a position with an attached stop has none.
C18_Original ==
  (pc = "done" /\ AllEffective(cmds)) =>
    \A i \in 1..Len(open_positions) :
      Cardinality(StopLossLeft(i)) <= (IF Attached(i) THEN 0 ELSE 1)

\* C18 amended: after a pass that received both snapshots and in which every
\* command took effect, a position without attached stop has at most one
\* stop-loss order left on the exchange and a position with an attached stop
\* has none.
C18_AtMostOneStopLoss ==
  EffectivePassDone =>
    \A i \in 1..Len(open_positions) :
      Cardinality(StopLossLeft(i)) <= (IF Attached(i) THEN 0 ELSE 1)

\* C18 witness: an effective pass has ended with exactly one stop-loss left
\* for a position that had several candidates.
C18_Witness ==
  /\ EffectivePassDone
  /\ \E i \in 1..Len(open_positions) :
       /\ ~Attached(i)
       /\ Len(Candidates(i)) > 1
       /\ Cardinality(StopLossLeft(i)) = 1

\* C19: when the cancel of a replacement returned a hard error, the pass has
\* still handled every later position (its commands are those of the loop body
\* under some venue answers, and it is reported when it lacks a stop-loss), and
\* the orphan sweep and the closing line have run.
C19_FailedCancelLocal ==
  pc = "done" =>
    \A n \in 1..Len(cmds) :
      (cmds[n].step = "replace" /\ cmds[n].op = "cancel" /\ cmds[n].result = "error") =>
        /\ \A i, j \in 1..Len(open_positions) :
             (open_positions[i].symbol = cmds[n].symbol /\ i < j) =>
               LET q == open_positions[j]
                   ids == PlanIds(Candidates(j)) \cup PlanIds(TakeProfits(j))
               IN /\ \E answers \in [ids -> CancelAnswers], place_answer \in PlaceAnswers :
                       CmdsOf(q.symbol)
                         = PositionCmds(q, all_plan_orders, answers, place_answer)
                  /\ MissingSl(q, all_plan_orders) =>
                       \E m \in 1..Len(missing_sl_symbols) : missing_sl_symbols[m] = q.symbol
        /\ summary
        /\ \A k \in 1..Len(all_plan_orders) :
             all_plan_orders[k].symbol \in orphan_symbols(open_positions, all_plan_orders)
               => \E m \in 1..Len(cmds) :
                    cmds[m].step = "orphan" /\ cmds[m].orderId = all_plan_orders[k].planId

\* C19 witness: the replacement of the first position stopped at the hard
\* error of its cancel and the second position had its stop-loss replaced.
C19_Witness ==
  /\ pc = "done"
  /\ Len(open_positions) = 2
  /\ \E n \in 1..Len(cmds) :
       /\ cmds[n].step = "replace" /\ cmds[n].op = "cancel" /\ cmds[n].result = "error"
       /\ cmds[n].symbol = open_positions[1].symbol
  /\ \E m \in 1..Len(cmds) :
       cmds[m].op = "place" /\ cmds[m].symbol = open_positions[2].symbol

\* C20: a position without attached stop and without stop-loss candidate is
\* recorded in missing_sl_symbols and no cancel and no place is sent for its
\* symbol.
C20_MissingReported ==
  \A i \in 1..Len(open_positions) :
    (Processed(i) /\ ~Attached(i) /\ Candidates(i) = <<>>) =>
      /\ \E m \in 1..Len(missing_sl_symbols) :
           missing_sl_symbols[m] = open_positions[i].symbol
      /\ CmdsOf(open_positions[i].symbol) = <<>>

\* C20 witness: the pass has ended with a position reported that has a
\* take-profit order but no stop-loss candidate.
C20_Witness ==
  /\ pc = "done"
  /\ \E i \in 1..Len(open_positions) :
       /\ ~Attached(i) /\ Candidates(i) = <<>> /\ TakeProfits(i) # <<>>
       /\ \E m \in 1..Len(missing_sl_symbols) :
            missing_sl_symbols[m] = open_positions[i].symbol

\* C21: a pass whose position query succeeded and whose conditional-order
\* query failed sends no cancel and no place command, and it runs to its end.
C21_OrderQueryFailed ==
  /\ []((pos_result = "ok" /\ ord_result = "error") => cmds = <<>>)
  /\ ((pos_result = "ok" /\ ord_result = "error") ~> (pc = "done" /\ ~fault))

\* C21 witness: such a pass has ended with an open position and orders on the
\* exchange it did not get to see.
C21_Witness ==
  /\ pc = "done"
  /\ pos_result = "ok" /\ ord_result = "error"
  /\ open_positions # <<>>
  /\ \E o \in exOrders : \E i \in 1..Len(open_positions) :
       o.symbol = open_positions[i].symbol

\* A record of the position snapshot that is a live position: all fields
\* accepted, a hold side, a size above 0.
LivePosition(r) ==
  /\ ~MalformedPosition(r)
  /\ r.holdSide \in {"long", "short"}
  /\ r.total[1] = "num" /\ r.total[2] > 0

\* The raw order o is a stop-loss candidate of the live position r, by the
\* classifier of the pass.
GuardsPosition(o, r) ==
  /\ OrderCollected(o)
  /\ o.symbol = r.symbol
  /\ sl_orders_for_symbol(PositionEntry(r), <<OrderData(o)>>) # <<>>

\* C22 as stated: a position that had a stop-loss candidate in the order
\* snapshot or an attached stop has, after a pass whose place commands all
\* succeeded, an attached stop or a stop-loss order on the exchange, whatever
\* the cancels returned.
C22_Claim ==
  (pc = "done" /\ \A k \in 1..Len(cmds) : cmds[k].op = "place" => cmds[k].result = "ok") =>
    \A n \in 1..Len(exPositions) :
      LET r == exPositions[n]
      IN (/\ LivePosition(r)
          /\ \/ HasAttachedSl(PositionEntry(r))
             \/ \E k \in 1..Len(plan_orders_raw) : GuardsPosition(plan_orders_raw[k], r)) =>
           \/ HasAttachedSl(PositionEntry(r))
           \/ \E o \in exOrders : GuardsPosition(o, r)

\* The same for the passes that received the position snapshot.
C22_WithPositions ==
  pos_result = "ok" => C22_Claim

\* C23: no pass sends two cancel commands for one order id, over the conflict,
\* consolidation, replacement and sweep steps together, and every cancel
\* command names the order id and the symbol of an order of the order
\* snapshot (whose ids are unique).
C23_CancelAtMostOnce ==
  /\ \A a, b \in 1..Len(cmds) :
       (cmds[a].op = "cancel" /\ cmds[b].op = "cancel" /\ cmds[a].orderId = cmds[b].orderId)
         => a = b
  /\ \A a \in 1..Len(cmds) :
       cmds[a].op = "cancel" =>
         \E k \in 1..Len(plan_orders_raw) :
           /\ plan_orders_raw[k].orderId = cmds[a].orderId
           /\ plan_orders_raw[k].symbol = cmds[a].symbol

\* C23 witness: one pass has sent cancels of the consolidation, of the
\* replacement and of the sweep.
C23_Witness ==
  /\ pc = "done"
  /\ \A step \in {"consolidate", "replace", "orphan"} :
       \E a \in 1..Len(cmds) : cmds[a].op = "cancel" /\ cmds[a].step = step

\* C24: for a processed position without attached stop and with a known
\* entry price, no cancel is sent for an order of its symbol that closes its
\* side with the trigger on the winning side of the entry price (take-profit),
\* nor for one that closes the other side; and the size check is decided by
\* the sizes of the remaining orders alone: the stop-loss is replaced exactly
\* when the limit orders closing the position's side with the trigger on the
\* losing side sum to more than position size + 0.0001.
C24_TakeProfitUntouched ==
  \A i \in 1..Len(open_positions) :
    LET p == open_positions[i]
        orders == OrdersOf(all_plan_orders, p.symbol)
        closes(k) == \/ p.side = "long" /\ orders[k].side = "close_long"
                     \/ p.side = "short" /\ orders[k].side = "close_short"
        losing(k) == is_sl(p.side, orders[k].triggerPrice, p.entry_price[2])
        guards == SelectSeq(orders,
                    LAMBDA o : /\ o.orderType = "limit"
                               /\ \/ p.side = "long" /\ o.side = "close_long"
                                  \/ p.side = "short" /\ o.side = "close_short"
                               /\ is_sl(p.side, o.triggerPrice, p.entry_price[2]))
    IN (/\ Processed(i) /\ ~Attached(i)
        /\ p.entry_price[1] = "num" /\ p.entry_price[2] > 0) =>
         /\ \A k \in 1..Len(orders) :
              ((closes(k) /\ ~losing(k)) \/ ~closes(k))
                => CancelCount(orders[k].planId) = 0
         /\ (\E n \in 1..Len(cmds) : cmds[n].step = "replace" /\ cmds[n].symbol = p.symbol)
              <=> SumSizes(guards) > p.size + Tolerance

\* C24 witness: a position with a stop-loss within the tolerance and a
\* take-profit order that together exceed the position size has been
\* processed, and the pass has ended without a command for its symbol.
C24_Witness ==
  /\ pc = "done"
  /\ \E i \in 1..Len(open_positions) :
       /\ ~Attached(i)
       /\ open_positions[i].entry_price[1] = "num" /\ open_positions[i].entry_price[2] > 0
       /\ Candidates(i) # <<>> /\ TakeProfits(i) # <<>>
       /\ SumSizes(Candidates(i)) <= open_positions[i].size + Tolerance
       /\ SumSizes(Candidates(i)) + SumSizes(TakeProfits(i))
            > open_positions[i].size + Tolerance
       /\ CmdsOf(open_positions[i].symbol) = <<>>

\* C25: a replacement whose cancel returned success or "does not exist" sends
\* its place command next; a position whose side is neither long nor short
\* has no stop-loss candidate, so no replacement is started for it and the
\* abort on an unknown position side is never taken.
C25_ReplacementCompletes ==
  /\ \A n \in 1..Len(cmds) :
       (cmds[n].step = "replace" /\ cmds[n].op = "cancel" /\ cmds[n].result # "error") =>
         /\ n < Len(cmds)
         /\ cmds[n + 1].op = "place"
         /\ cmds[n + 1].symbol = cmds[n].symbol
  /\ \A i \in 1..Len(open_positions) :
       open_positions[i].side \notin {"long", "short"} =>
         /\ Candidates(i) = <<>>
         /\ \A n \in 1..Len(cmds) :
              cmds[n].symbol = open_positions[i].symbol => cmds[n].step # "replace"

\* C25 witness: a position of unknown side with an oversized closing order of
\* its symbol has been processed, and the replacement for another position has
\* placed its order after a cancel answered "does not exist".
C25_Witness ==
  /\ pc = "done"
  /\ \E i \in 1..Len(open_positions) :
       /\ open_positions[i].side \notin {"long", "short"}
       /\ \E k \in 1..Len(all_plan_orders) :
            /\ all_plan_orders[k].symbol = open_positions[i].symbol
            /\ all_plan_orders[k].orderType = "limit"
            /\ all_plan_orders[k].size > open_positions[i].size + Tolerance
  /\ \E n \in 1..(Len(cmds) - 1) :
       /\ cmds[n].step = "replace" /\ cmds[n].op = "cancel" /\ cmds[n].result = "notfound"
       /\ cmds[n + 1].op = "place"

====
